---- MODULE Spec2Model ----
(***************************************************************************)
(* Thornbury Picture House showtimes monitor: the rolling-window pipeline  *)
(* (prime the session, query one day at a time, normalise, diff against    *)
(* cache.json ignoring past sessions, notify, save).                       *)
(*                                                                         *)
(* JavaScript values are represented as follows.                           *)
(*   string of characters   a sequence of one-character strings            *)
(*   ISO instant string     a record [enc, t]: its textual encoding and    *)
(*                          the instant it parses to                       *)
(*   possibly undefined x   <<>> (undefined) or <<x>>                      *)
(*   object used as a map   a function from its own keys to their values   *)
(*   possibly null object   a record [isNull, val]                         *)
(* The wall clock is the environment's: every Date.now() the code performs *)
(* draws a reading that is at least the previous one.                      *)
(***************************************************************************)
EXTENDS Integers, Sequences, FiniteSets, TLC

\* ------------------------------------------------------------------ bounds
\* Instants and clock readings range over 0..MaxT.
MaxT == 2
\* Records the data endpoint returns over one run's window.
MaxRecords == 1
\* Consecutive runs of the monitor.
MaxRuns == 2
\* The days over which the start of a run ranges in the walk over the dates.
MaxStartDays == 2
\* The longest Set-Cookie list given to mergeSetCookies on its own.
MaxSetCookies == 2
\* The longest list of raw records given to the normalizer on its own.
MaxShowings == 3

\* ------------------------------------------------------- program constants
DAYS_AHEAD == 30

\* ------------------------------------------------------------- JS values
Undefined == <<>>
Def(x) == <<x>>

EmptyMap == [m \in {} |-> <<>>]
Null == [isNull |-> TRUE, val |-> EmptyMap]
Obj(m) == [isNull |-> FALSE, val |-> m]

\* new Date(iso).getTime() of an unparsable string.
NaN == -1

Iso(enc, t) == [enc |-> enc, t |-> t]
EmptyString == Iso("empty", 0)

\* The ISO strings the data endpoint and the cache hold.
IsoStrings == {Iso("Z", t) : t \in 1..MaxT}

\* Trimmed titles.
Titles == {<<"A">>, <<"B">>}

\* The records of a day's showings as the data endpoint sends them: movie.name
\* with or without surrounding whitespace, and records that lack a usable
\* name or time.
RawRecord(name, time) == [name |-> name, time |-> time]
RawRecords ==
  {RawRecord(Def(n), Def(s)) : n \in {<<"A">>, <<" ", "A", " ">>, <<"B">>}, s \in IsoStrings}
  \cup {RawRecord(Undefined, Def(Iso("Z", 1))),
        RawRecord(Def(<<" ">>), Def(Iso("Z", 1))),
        RawRecord(Def(<<"A">>), Undefined),
        RawRecord(Def(<<"A">>), Def(EmptyString))}

\* ------------------------------------------------------- pure functions
RECURSIVE trimStart(_)
trimStart(s) ==
  IF s = <<>> THEN s
  ELSE IF Head(s) = " " THEN trimStart(Tail(s)) ELSE s

RECURSIVE trimEnd(_)
trimEnd(s) ==
  IF s = <<>> THEN s
  ELSE IF s[Len(s)] = " " THEN trimEnd(SubSeq(s, 1, Len(s) - 1)) ELSE s

\* String.prototype.trim
trim(s) == trimEnd(trimStart(s))

\* new Date(isoString).getTime()
getTime(isoString) ==
  IF isoString.enc \in {"Z", "offset"} THEN isoString.t ELSE NaN

\* Array.prototype.includes
Includes(arr, x) == \E j \in 1..Len(arr) : arr[j] = x

\* Array.from(new Set(arr)): the first occurrence of every value, in order.
RECURSIVE Dedupe(_)
Dedupe(arr) ==
  IF arr = <<>> THEN <<>>
  ELSE LET front == SubSeq(arr, 1, Len(arr) - 1)
           last == arr[Len(arr)]
       IN IF Includes(front, last) THEN Dedupe(front)
          ELSE Append(Dedupe(front), last)

\* The comparator (a, b) => new Date(a).getTime() - new Date(b).getTime();
\* a NaN result counts as +0 (SortCompare).
compareTimes(a, b) ==
  IF getTime(a) = NaN \/ getTime(b) = NaN THEN 0 ELSE getTime(a) - getTime(b)

\* The insertion of an unstable sort: the new element goes in front of
\* those it compares equal to.
RECURSIVE InsertSortedBeforeEqual(_, _)
InsertSortedBeforeEqual(sorted, x) ==
  IF sorted = <<>> THEN <<x>>
  ELSE IF compareTimes(Head(sorted), x) < 0
       THEN <<Head(sorted)>> \o InsertSortedBeforeEqual(Tail(sorted), x)
       ELSE <<x>> \o sorted

RECURSIVE InsertSorted(_, _)
InsertSorted(sorted, x) ==
  IF sorted = <<>> THEN <<x>>
  ELSE IF compareTimes(Head(sorted), x) <= 0
       THEN <<Head(sorted)>> \o InsertSorted(Tail(sorted), x)
       ELSE <<x>> \o sorted

\* Array.prototype.sort with compareTimes (a stable sort).
RECURSIVE SortTimes(_)
SortTimes(arr) ==
  IF arr = <<>> THEN <<>>
  ELSE InsertSorted(SortTimes(SubSeq(arr, 1, Len(arr) - 1)), arr[Len(arr)])

\* The loop body of getAllShowtimesRollingMonth over one day's showings:
\* skip, trim, group, push.
RECURSIVE pushShowings(_, _)
pushShowings(map, showings) ==
  IF showings = <<>> THEN map
  ELSE LET s == Head(showings)
           movie == IF s.name = Undefined THEN Undefined ELSE Def(trim(s.name[1]))
           iso == s.time
           skip == \/ movie = Undefined
                   \/ movie = Def(<<>>)
                   \/ iso = Undefined
                   \/ iso = Def(EmptyString)
           key == movie[1]
           next == IF skip THEN map
                   ELSE [m \in DOMAIN map \cup {key} |->
                           IF m = key
                           THEN (IF key \in DOMAIN map THEN map[key] ELSE <<>>) \o <<iso[1]>>
                           ELSE map[m]]
       IN pushShowings(next, Tail(showings))

\* The closing loop of getAllShowtimesRollingMonth: deduplicate and sort.
normalize(map) == [m \in DOMAIN map |-> SortTimes(Dedupe(map[m]))]

\* ----------------------------------------------------------- diff engine
\* isPastShowtime with its comparison turned round.
isPastShowtimeReversed(isoString, dateNow) ==
  LET t == getTime(isoString)
  IN IF t = NaN THEN FALSE ELSE t > dateNow

\* isPastShowtime that takes a string denoting no instant for a past one.
isPastShowtimeUnparsableIsPast(isoString, dateNow) ==
  LET t == getTime(isoString)
  IN IF t = NaN THEN TRUE ELSE t < dateNow

\* isPastShowtime, with dateNow the reading its Date.now() returns.
isPastShowtime(isoString, dateNow) ==
  LET t == getTime(isoString)
  IN IF t = NaN THEN FALSE ELSE t < dateNow

\* The orders in which Object.entries may enumerate the keys of a map.
RECURSIVE KeyOrders(_)
KeyOrders(keys) ==
  IF keys = {} THEN {<<>>}
  ELSE UNION {{<<k>> \o rest : rest \in KeyOrders(keys \ {k})} : k \in keys}

\* The non-decreasing sequences of n clock readings, none before lo.
RECURSIVE ClockReads(_, _)
ClockReads(n, lo) ==
  IF n = 0 THEN {<<>>}
  ELSE UNION {{<<r>> \o rest : rest \in ClockReads(n - 1, r)} : r \in lo..MaxT}

RECURSIVE CountTimes(_, _)
CountTimes(showtimeMap, order) ==
  IF order = <<>> THEN 0
  ELSE Len(showtimeMap[Head(order)]) + CountTimes(showtimeMap, Tail(order))

\* times.filter((t) => !isPastShowtime(t)), the j-th call reading reads[j].
RECURSIVE futureTimes(_, _)
futureTimes(times, reads) ==
  IF times = <<>> THEN <<>>
  ELSE (IF isPastShowtime(Head(times), Head(reads)) THEN <<>> ELSE <<Head(times)>>)
       \o futureTimes(Tail(times), Tail(reads))

\* filterPastShowtimes without its test of futureTimes.length.
RECURSIVE filterPastShowtimesKeepEmpty(_, _, _)
filterPastShowtimesKeepEmpty(showtimeMap, order, reads) ==
  IF order = <<>> THEN EmptyMap
  ELSE LET movie == Head(order)
           times == showtimeMap[movie]
           kept == futureTimes(times, SubSeq(reads, 1, Len(times)))
           rest == filterPastShowtimesKeepEmpty(showtimeMap, Tail(order),
                                                SubSeq(reads, Len(times) + 1, Len(reads)))
       IN [m \in DOMAIN rest \cup {movie} |-> IF m = movie THEN kept ELSE rest[m]]

\* filterPastShowtimes: order is the enumeration order of the map's entries
\* and reads the readings of its successive isPastShowtime calls.
RECURSIVE filterPastShowtimes(_, _, _)
filterPastShowtimes(showtimeMap, order, reads) ==
  IF order = <<>> THEN EmptyMap
  ELSE LET movie == Head(order)
           times == showtimeMap[movie]
           kept == futureTimes(times, SubSeq(reads, 1, Len(times)))
           rest == filterPastShowtimes(showtimeMap, Tail(order),
                                       SubSeq(reads, Len(times) + 1, Len(reads)))
       IN IF Len(kept) > 0
          THEN [m \in DOMAIN rest \cup {movie} |-> IF m = movie THEN kept ELSE rest[m]]
          ELSE rest

\* Object.values(newData).reduce((sum, arr) => sum + arr.length, 0)
RECURSIVE showtimeCount(_)
showtimeCount(data) ==
  IF DOMAIN data = {} THEN 0
  ELSE LET m == CHOOSE k \in DOMAIN data : TRUE
       IN Len(data[m]) + showtimeCount([k \in DOMAIN data \ {m} |-> data[k]])

\* detectChanges treating an empty first fetch as nothing to report.
detectChangesInitialSkipEmpty(newData) ==
  IF DOMAIN newData = {}
  THEN [changed |-> FALSE, isInitial |-> FALSE, added |-> EmptyMap, removed |-> EmptyMap]
  ELSE [changed |-> TRUE,
        isInitial |-> TRUE,
        message |-> <<"Initial check", Cardinality(DOMAIN newData), showtimeCount(newData)>>]

\* detectChanges when there is no previous snapshot (!oldData).
detectChangesInitial(newData) ==
  [changed |-> TRUE,
   isInitial |-> TRUE,
   message |-> <<"Initial check", Cardinality(DOMAIN newData), showtimeCount(newData)>>]

\* One side of the comparison of detectChanges: the entries of `these`
\* that `those` lacks.
diffSide(these, those) ==
  LET fresh(m) == SelectSeq(these[m], LAMBDA t : ~Includes(those[m], t))
      keys == {m \in DOMAIN these : m \notin DOMAIN those \/ Len(fresh(m)) > 0}
  IN [m \in keys |-> IF m \notin DOMAIN those THEN these[m] ELSE fresh(m)]

\* detectChanges with the two sides of its comparison exchanged.
detectChangesCompareSwapped(filteredOldData, filteredNewData) ==
  LET added == diffSide(filteredOldData, filteredNewData)
      removed == diffSide(filteredNewData, filteredOldData)
      changed == Cardinality(DOMAIN added) > 0 \/ Cardinality(DOMAIN removed) > 0
  IN [changed |-> changed, isInitial |-> FALSE, added |-> added, removed |-> removed]

\* detectChanges with changed computed from added alone.
detectChangesCompareAddedOnly(filteredOldData, filteredNewData) ==
  LET added == diffSide(filteredNewData, filteredOldData)
      removed == diffSide(filteredOldData, filteredNewData)
      changed == Cardinality(DOMAIN added) > 0
  IN [changed |-> changed, isInitial |-> FALSE, added |-> added, removed |-> removed]

\* detectChanges that reports the whole previous list of a title that lost
\* an instant.
detectChangesCompareRemovedWhole(filteredOldData, filteredNewData) ==
  LET added == diffSide(filteredNewData, filteredOldData)
      gone == diffSide(filteredOldData, filteredNewData)
      removed == [m \in DOMAIN gone |-> filteredOldData[m]]
      changed == Cardinality(DOMAIN added) > 0 \/ Cardinality(DOMAIN removed) > 0
  IN [changed |-> changed, isInitial |-> FALSE, added |-> added, removed |-> removed]

\* detectChanges after both sides were filtered.
detectChangesCompare(filteredOldData, filteredNewData) ==
  LET added == diffSide(filteredNewData, filteredOldData)
      removed == diffSide(filteredOldData, filteredNewData)
      changed == Cardinality(DOMAIN added) > 0 \/ Cardinality(DOMAIN removed) > 0
  IN [changed |-> changed, isInitial |-> FALSE, added |-> added, removed |-> removed]

\* ---------------------------------------------------------------- message
\* A text is the sequence of its lines, "" the text without any; a line is
\* what it starts with and the sessions it lists.
Line(text, sessions) == [text |-> text, sessions |-> sessions]
EmptyText == <<>>

\* formatDateTimeMelbourne: the local date and time of the instant.
formatDateTimeMelbourne(timestamp) == [dateTime |-> timestamp]

\* formatSessionMelbourne: the local day and time of day of the instant the
\* string denotes, whatever its encoding; "Invalid Date" for one that
\* denotes none.
formatSessionMelbourne(isoString) == [session |-> getTime(isoString)]

\* The loop of formatMessage over Object.entries of one mapping.
formatEntries(mapping, order) ==
  [j \in 1..Len(order) |->
     Line(order[j],
          [k \in 1..Len(mapping[order[j]]) |-> formatSessionMelbourne(mapping[order[j]][k])])]

\* addedText and removedText of formatMessage.
formatBlock(header, mapping, order) ==
  IF Cardinality(DOMAIN mapping) > 0
  THEN <<Line(<<header>>, <<>>)>> \o formatEntries(mapping, order)
  ELSE EmptyText

NoSessionsAdded == <<Line(<<"No sessions added">>, <<>>)>>
NoSessionsRemoved == <<Line(<<"No sessions removed">>, <<>>)>>

\* formatMessage that returns the two texts as they are.
formatMessageNoPlaceholder(changes, addedOrder, removedOrder, timestamp) ==
  IF changes.isInitial
  THEN [value1 |-> changes.message,
        value2 |-> EmptyText,
        value3 |-> formatDateTimeMelbourne(timestamp)]
  ELSE [value1 |-> formatBlock("SESSIONS ADDED:", changes.added, addedOrder),
        value2 |-> formatBlock("SESSIONS REMOVED:", changes.removed, removedOrder),
        value3 |-> formatDateTimeMelbourne(timestamp)]

\* formatMessage: addedOrder and removedOrder are the enumeration orders of
\* the entries of changes.added and changes.removed.
formatMessage(changes, addedOrder, removedOrder, timestamp) ==
  IF changes.isInitial
  THEN [value1 |-> changes.message,
        value2 |-> EmptyText,
        value3 |-> formatDateTimeMelbourne(timestamp)]
  ELSE LET addedText == formatBlock("SESSIONS ADDED:", changes.added, addedOrder)
           removedText == formatBlock("SESSIONS REMOVED:", changes.removed, removedOrder)
       IN [value1 |-> IF addedText # EmptyText THEN addedText ELSE NoSessionsAdded,
           value2 |-> IF removedText # EmptyText THEN removedText ELSE NoSessionsRemoved,
           value3 |-> formatDateTimeMelbourne(timestamp)]

\* The orders Object.entries can enumerate one mapping of a result in.
entryOrders(changes, side) ==
  IF changes.isInitial THEN {<<>>} ELSE KeyOrders(DOMAIN changes[side])

\* ------------------------------------------------------------------ dates
\* A Date is the number of whole hours since 00:00 UTC of day 0, and a
\* YYYY-MM-DD string the number of its calendar day. Australia/Melbourne
\* is at UTC+11 until daylight saving ends (03:00 local on a Sunday, that
\* is 16:00 UTC on the Saturday), at UTC+10 from then until it starts again
\* 26 weeks later (02:00 local, again 16:00 UTC), and at UTC+11 afterwards.
DstEndsAt == 2 * 24 + 16
DstStartsAt == DstEndsAt + 26 * 7 * 24

utcOffset(dateObj) ==
  IF dateObj < DstEndsAt THEN 11
  ELSE IF dateObj < DstStartsAt THEN 10
  ELSE 11

\* toYMD: the calendar date in MEL_TZ of the instant.
toYMD(dateObj) == (dateObj + utcOffset(dateObj)) \div 24

\* addDays: d.setUTCDate(d.getUTCDate() + days), the time of day in UTC kept.
addDays(dateObj, days) ==
  LET utcDate == dateObj \div 24
      utcHours == dateObj % 24
  IN (utcDate + days) * 24 + utcHours

\* new Date() at the start of the loop: any hour of the days before either
\* change of the offset.
StartInstants ==
  0..(MaxStartDays * 24 - 1) \cup (DstStartsAt - MaxStartDays * 24)..(DstStartsAt - 1)

\* ---------------------------------------------------------------- session
\* Strings are sequences of characters here. String.prototype.split on a
\* one-character separator.
RECURSIVE split(_, _)
split(str, sep) ==
  IF \A j \in 1..Len(str) : str[j] # sep THEN <<str>>
  ELSE LET j == CHOOSE k \in 1..Len(str) :
                  str[k] = sep /\ \A l \in 1..(k - 1) : str[l] # sep
       IN <<SubSeq(str, 1, j - 1)>> \o split(SubSeq(str, j + 1, Len(str)), sep)

\* Array.prototype.join
RECURSIVE join(_, _)
join(parts, sep) ==
  IF parts = <<>> THEN <<>>
  ELSE IF Len(parts) = 1 THEN parts[1]
       ELSE parts[1] \o sep \o join(Tail(parts), sep)

\* Map.prototype.set taken for a push: the entry is added at the end.
setCookieAppend(existing, kv) == Append(existing, kv)

\* Map.prototype.set on a Map kept as the sequence of its <<key, value>>
\* entries in insertion order.
RECURSIVE setCookie(_, _)
setCookie(existing, kv) ==
  IF existing = <<>> THEN <<kv>>
  ELSE IF Head(existing)[1] = kv[1] THEN <<kv>> \o Tail(existing)
       ELSE <<Head(existing)>> \o setCookie(Tail(existing), kv)

\* const [k, ...rest] = kv.trim().split("="), with rest.join("=")
splitKeyValue(kv) ==
  LET parts == split(trim(kv), "=")
  IN <<parts[1], join(Tail(parts), <<"=">>)>>

\* The two loops of mergeSetCookies: set every pair that has a key.
RECURSIVE setCookies_(_, _)
setCookies_(existing, kvs) ==
  IF kvs = <<>> THEN existing
  ELSE LET p == splitKeyValue(Head(kvs))
       IN setCookies_(IF p[1] = <<>> THEN existing ELSE setCookie(existing, p), Tail(kvs))

mergeSetCookies(existingCookieHeader, setCookieArray) ==
  LET existing == IF existingCookieHeader = <<>> THEN <<>>
                  ELSE setCookies_(<<>>, split(existingCookieHeader, ";"))
      firsts == [j \in 1..Len(setCookieArray) |-> split(setCookieArray[j], ";")[1]]
      merged == setCookies_(existing, firsts)
  IN join([j \in 1..Len(merged) |-> merged[j][1] \o <<"=">> \o merged[j][2]], <<";", " ">>)

\* The set-cookie headers a bootstrap page may answer with: none, or
\* "sid=1; Path".
SetCookieArrays == {<<>>, << <<"s", "i", "d", "=", "1", ";", " ", "P", "a", "t", "h">> >>}

\* ------------------------------------------------------- data endpoint
Statuses == {200, 302, 403, 500}
\* data: {data: {showingsForDate: {data: [...]}}}; error: {error: {message}};
\* errors: {errors: [...]} non-empty; nodata: JSON without the showings
\* list; text: a body that is not JSON.
Bodies == {"data", "error", "errors", "nodata", "text"}

\* What axios.get may resolve or reject with for a bootstrap page.
BootstrapResponses ==
  {[transport |-> "error", status |-> 0, setCookie |-> <<>>]}
  \cup {[transport |-> "ok", status |-> st, setCookie |-> a] :
          st \in Statuses, a \in SetCookieArrays}

RECURSIVE SeqsUpTo(_, _)
SeqsUpTo(S, n) ==
  IF n = 0 THEN {<<>>}
  ELSE SeqsUpTo(S, n - 1) \cup
       {Append(q, x) : q \in {p \in SeqsUpTo(S, n - 1) : Len(p) = n - 1}, x \in S}

Response(transport, status, body, showings) ==
  [transport |-> transport, status |-> status, body |-> body, showings |-> showings]

\* What axios.post may resolve or reject with when at most n records are left.
Responses(n) ==
  {Response("error", 0, "text", <<>>)}
  \cup {Response("ok", st, b, <<>>) : st \in Statuses \ {200}, b \in {"text", "error"}}
  \cup {Response("ok", 200, b, <<>>) : b \in Bodies \ {"data"}}
  \cup {Response("ok", 200, "data", l) : l \in SeqsUpTo(RawRecords, n)}

\* fetchShowingsForDate without its check of the 403 status.
fetchShowingsForDateNo403(resp) ==
  IF resp.transport = "error" THEN [threw |-> "transport", showings |-> <<>>]
  ELSE IF resp.status # 403 /\ (resp.status < 200 \/ resp.status >= 300)
       THEN [threw |-> "http", showings |-> <<>>]
  ELSE IF resp.body = "error" THEN [threw |-> "error", showings |-> <<>>]
  ELSE IF resp.body = "errors" THEN [threw |-> "errors", showings |-> <<>>]
  ELSE [threw |-> "", showings |-> IF resp.body = "data" THEN resp.showings ELSE <<>>]

\* fetchShowingsForDate on the response of its POST: what it throws, or
\* the showings it returns.
fetchShowingsForDate(resp) ==
  IF resp.transport = "error" THEN [threw |-> "transport", showings |-> <<>>]
  ELSE IF resp.status = 403 THEN [threw |-> "403", showings |-> <<>>]
  ELSE IF resp.status < 200 \/ resp.status >= 300 THEN [threw |-> "http", showings |-> <<>>]
  ELSE IF resp.body = "error" THEN [threw |-> "error", showings |-> <<>>]
  ELSE IF resp.body = "errors" THEN [threw |-> "errors", showings |-> <<>>]
  ELSE [threw |-> "", showings |-> IF resp.body = "data" THEN resp.showings ELSE <<>>]

\* ------------------------------------------------------------ cache.json
AbsentFile == [state |-> "absent", data |-> EmptyMap]
CorruptFile == [state |-> "corrupt", data |-> EmptyMap]
JsonFile(data) == [state |-> "json", data |-> data]

\* loadCache that takes unparsable content for an empty Schedule.
loadCacheCorruptIsEmpty(file) ==
  IF file.state = "absent" THEN Null
  ELSE IF file.state = "corrupt" THEN Obj(EmptyMap)
  ELSE Obj(file.data)

loadCache(file) ==
  IF file.state = "absent" THEN Null
  ELSE IF file.state = "corrupt" THEN Null
  ELSE Obj(file.data)

\* ------------------------------------------------------------- schedules
\* A title's list as the pipeline leaves it: duplicate-free, ascending.
SortedLists ==
  {l \in UNION {KeyOrders(S) : S \in SUBSET IsoStrings \ {{}}} :
     \A j \in 1..Len(l) : \A k \in j..Len(l) : compareTimes(l[j], l[k]) <= 0}

Schedules == UNION {[D -> SortedLists] : D \in SUBSET Titles}

NoChanges == [changed |-> FALSE, isInitial |-> FALSE, added |-> EmptyMap, removed |-> EmptyMap]

\* ----------------------------------------------------------------- state
VARIABLES
  pc,               \* where main() stands
  run,              \* the number of the current run
  now,              \* the latest reading of the wall clock
  cacheFile,        \* cache.json
  cacheAtStart,     \* cache.json as the current run found it
  oldData,          \* main: what loadCache returned
  newData,          \* main: the fetched Schedule
  changes,          \* main: what detectChanges returned
  msg,              \* main: what formatMessage returned, if it was called
  cookies,          \* primeCookies: the cookie header so far
  i,                \* getAllShowtimesRollingMonth: the day index
  map,              \* getAllShowtimesRollingMonth: title -> pushed instants
  returned,         \* records the data endpoint returned in this run
  refNow,           \* detectChanges: its first Date.now(), if it made any
  filteredOldData,  \* detectChanges
  filteredNewData,  \* detectChanges
  queries,          \* data-endpoint POSTs issued in this run
  posts,            \* webhook POSTs issued in this run
  delivered,        \* webhook POSTs that succeeded in this run
  saves,            \* saveCache calls in this run
  netFailure,       \* the first network exchange of this run that failed, "" if none
  malformed,        \* a 2xx answer of the data endpoint had no showings list
  exitCode,         \* the exit status once pc = "exited"
  err,              \* the error that ended the run, "" if none
  gets,             \* bootstrap GETs issued in this run
  loads,            \* loadCache calls in this run
  homeResp,         \* primeCookies: the answer to the GET of the home page
  nowResp,          \* primeCookies: the answer to the GET of the listing page
  cursor,           \* getAllShowtimesRollingMonth: the Date the loop walks
  ymds,             \* the date strings the loop has queried, in order
  variant,          \* which main() is running
  showings,         \* the raw records that were pushed into map
  cookiesBefore,    \* mergeSetCookies: its first argument at the last call
  setCookies,       \* mergeSetCookies: its second argument at the last call
  prevRun           \* how the run before this one ended, where that is followed

mainLocals == <<oldData, newData, changes, msg>>
fetchLocals == <<cookies, i, map, returned>>
diffLocals == <<refNow, filteredOldData, filteredNewData>>
primeLocals == <<homeResp, nowResp>>
history == <<gets, loads, queries, posts, delivered, saves, netFailure, malformed>>
files == <<cacheFile, cacheAtStart>>
\* What is followed only where a part of the program is taken on its own:
\* the walk over the dates, the other main() functions, the normalizer and
\* mergeSetCookies over arbitrary input.
apart == <<cursor, ymds, variant, showings, cookiesBefore, setCookies, prevRun>>

vars == <<pc, run, now, files, mainLocals, fetchLocals, diffLocals, primeLocals, history,
          exitCode, err, apart>>

\* The locals of a run before main() has done anything.
FreshRun ==
  /\ pc = "main"
  /\ oldData = Null
  /\ newData = EmptyMap
  /\ changes = NoChanges
  /\ msg = Undefined
  /\ cookies = <<>>
  /\ i = 0
  /\ map = EmptyMap
  /\ returned = 0
  /\ refNow = Undefined
  /\ filteredOldData = EmptyMap
  /\ filteredNewData = EmptyMap
  /\ queries = 0
  /\ posts = 0
  /\ delivered = 0
  /\ saves = 0
  /\ netFailure = ""
  /\ malformed = FALSE
  /\ exitCode = 0
  /\ err = ""
  /\ gets = 0
  /\ loads = 0
  /\ homeResp = Undefined
  /\ nowResp = Undefined

\* The rolling-window main() with the parts followed elsewhere at rest.
RollingOnly ==
  /\ cursor = 0
  /\ ymds = <<>>
  /\ variant = "rolling"
  /\ showings = <<>>
  /\ cookiesBefore = <<>>
  /\ setCookies = <<>>
  /\ prevRun = Undefined

\* A fresh deployment: no usable cache.json.
Init ==
  /\ FreshRun
  /\ run = 1
  /\ now = 0
  /\ cacheFile \in {AbsentFile, CorruptFile}
  /\ cacheAtStart = cacheFile
  /\ RollingOnly

\* ---------------------------------------------------------------- actions
\* process.exit(1), from the catch of main or of main().catch.
Exit1(e) ==
  /\ pc' = "exited"
  /\ exitCode' = 1
  /\ err' = e

\* A throw out of getAllShowtimesRollingMonth, like its return, ends the
\* life of its locals.
DropFetchLocals ==
  /\ cookies' = <<>>
  /\ i' = 0
  /\ map' = EmptyMap
  /\ returned' = 0

\* The first failed exchange of the run.
Failed(kind) == netFailure' = IF netFailure # "" \/ kind = "" THEN netFailure ELSE kind

\* How the answer of the data endpoint failed, "" if it did not: no answer,
\* forbidden, another non-2xx status, a body carrying error or errors.
ResponseFailure(resp) ==
  IF resp.transport = "error" THEN "transport"
  ELSE IF resp.status = 403 THEN "403"
  ELSE IF resp.status \notin 200..299 THEN "http"
  ELSE IF resp.body \in {"error", "errors"} THEN "body"
  ELSE ""

\* A 2xx answer whose payload is not the expected shape.
ResponseMalformed(resp) ==
  resp.transport = "ok" /\ resp.status \in 200..299 /\ resp.body \in {"nodata", "text"}

\* main: const oldData = loadCache();
LoadCache ==
  /\ pc = "main"
  /\ oldData' = loadCache(cacheFile)
  /\ loads' = loads + 1
  /\ pc' = "primeHome"
  /\ UNCHANGED <<run, now, files, newData, changes, msg, fetchLocals, diffLocals, primeLocals,
                 gets, queries, posts, delivered, saves, netFailure, malformed,
                 exitCode, err, apart>>

\* primeCookies that takes a 4xx or 5xx answer of the home page for a failure.
PrimeHomeChecksStatus ==
  /\ pc = "primeHome"
  /\ gets' = gets + 1
  /\ \E resp \in BootstrapResponses :
       /\ homeResp' = Def(resp)
       /\ IF resp.transport = "error" \/ resp.status >= 400
          THEN /\ Exit1("prime")
               /\ Failed("prime")
               /\ DropFetchLocals
          ELSE /\ cookies' = mergeSetCookies(<<>>, resp.setCookie)
               /\ pc' = "primeNow"
               /\ UNCHANGED <<i, map, returned, netFailure, exitCode, err>>
  /\ UNCHANGED <<run, now, files, mainLocals, diffLocals, nowResp, loads, queries, posts,
                 delivered, saves, malformed, apart>>

\* primeCookies: the GET of the home page.
PrimeHome ==
  /\ pc = "primeHome"
  /\ gets' = gets + 1
  /\ \E resp \in BootstrapResponses :
       /\ homeResp' = Def(resp)
       /\ IF resp.transport = "error"
          THEN /\ Exit1("prime")
               /\ Failed("prime")
               /\ DropFetchLocals
          ELSE /\ cookies' = mergeSetCookies(<<>>, resp.setCookie)
               /\ pc' = "primeNow"
               /\ UNCHANGED <<i, map, returned, netFailure, exitCode, err>>
  /\ UNCHANGED <<run, now, files, mainLocals, diffLocals, nowResp, loads, queries, posts,
                 delivered, saves, malformed, apart>>

\* primeCookies: the GET of the now-showing page.
PrimeNow ==
  /\ pc = "primeNow"
  /\ gets' = gets + 1
  /\ \E resp \in BootstrapResponses :
       /\ nowResp' = Def(resp)
       /\ IF resp.transport = "error"
          THEN /\ Exit1("prime")
               /\ Failed("prime")
               /\ DropFetchLocals
          ELSE /\ cookies' = mergeSetCookies(cookies, resp.setCookie)
               /\ pc' = "fetch"
               /\ UNCHANGED <<i, map, returned, netFailure, exitCode, err>>
  /\ UNCHANGED <<run, now, files, mainLocals, diffLocals, homeResp, loads, queries, posts,
                 delivered, saves, malformed, apart>>

\* The loop turn that tolerates a failed day: it skips the day and goes on.
FetchDaySkipFailed ==
  /\ pc = "fetch"
  /\ i <= DAYS_AHEAD
  /\ \E resp \in Responses(MaxRecords - returned) :
       LET r == fetchShowingsForDate(resp)
       IN /\ queries' = queries + 1
          /\ Failed(ResponseFailure(resp))
          /\ malformed' = (malformed \/ ResponseMalformed(resp))
          /\ map' = IF r.threw # "" THEN map ELSE pushShowings(map, r.showings)
          /\ i' = i + 1
          /\ returned' = returned + Len(resp.showings)
          /\ UNCHANGED <<pc, cookies, exitCode, err>>
  /\ homeResp' = Undefined
  /\ nowResp' = Undefined
  /\ UNCHANGED <<run, now, files, mainLocals, diffLocals, gets, loads, posts, delivered,
                 saves, apart>>

\* The loop turn that sends the requests of two days at once.
FetchDayTwoAtOnce ==
  /\ pc = "fetch"
  /\ i <= DAYS_AHEAD
  /\ \E resp \in Responses(MaxRecords - returned) :
       LET r == fetchShowingsForDate(resp)
       IN /\ queries' = queries + 2
          /\ Failed(ResponseFailure(resp))
          /\ malformed' = (malformed \/ ResponseMalformed(resp))
          /\ IF r.threw # ""
             THEN /\ Exit1(r.threw)
                  /\ DropFetchLocals
             ELSE /\ map' = pushShowings(map, r.showings)
                  /\ i' = i + 2
                  /\ returned' = returned + Len(resp.showings)
                  /\ UNCHANGED <<pc, cookies, exitCode, err>>
  /\ homeResp' = Undefined
  /\ nowResp' = Undefined
  /\ UNCHANGED <<run, now, files, mainLocals, diffLocals, gets, loads, posts, delivered,
                 saves, apart>>

\* getAllShowtimesRollingMonth: one turn of the loop over the days.
FetchDay ==
  /\ pc = "fetch"
  /\ i <= DAYS_AHEAD
  /\ \E resp \in Responses(MaxRecords - returned) :
       LET r == fetchShowingsForDate(resp)
       IN /\ queries' = queries + 1
          /\ Failed(ResponseFailure(resp))
          /\ malformed' = (malformed \/ ResponseMalformed(resp))
          /\ IF r.threw # ""
             THEN /\ Exit1(r.threw)
                  /\ DropFetchLocals
             ELSE /\ map' = pushShowings(map, r.showings)
                  /\ i' = i + 1
                  /\ returned' = returned + Len(resp.showings)
                  /\ UNCHANGED <<pc, cookies, exitCode, err>>
  /\ homeResp' = Undefined
  /\ nowResp' = Undefined
  /\ UNCHANGED <<run, now, files, mainLocals, diffLocals, gets, loads, posts, delivered,
                 saves, apart>>

\* getAllShowtimesRollingMonth: after the loop, deduplicate, sort, return.
Normalize ==
  /\ pc = "fetch"
  /\ i > DAYS_AHEAD
  /\ newData' = normalize(map)
  /\ DropFetchLocals
  /\ pc' = "detect"
  /\ UNCHANGED <<run, now, files, oldData, changes, msg, diffLocals, primeLocals, history,
                 exitCode, err, apart>>

\* main: if (changes.changed) ... else ...
AfterDetect(c) == IF c.changed THEN "notify" ELSE "save"

\* detectChanges with no previous snapshot.
DetectInitial ==
  /\ pc = "detect"
  /\ oldData.isNull
  /\ changes' = detectChangesInitial(newData)
  /\ pc' = AfterDetect(changes')
  /\ UNCHANGED <<run, now, files, oldData, newData, msg, fetchLocals, diffLocals, primeLocals,
                 history, exitCode, err, apart>>

\* detectChanges: const filteredOldData = filterPastShowtimes(oldData);
DetectFilterOld ==
  /\ pc = "detect"
  /\ ~oldData.isNull
  /\ \E order \in KeyOrders(DOMAIN oldData.val) :
       \E reads \in ClockReads(CountTimes(oldData.val, order), now) :
          /\ filteredOldData' = filterPastShowtimes(oldData.val, order, reads)
          /\ now' = IF reads = <<>> THEN now ELSE reads[Len(reads)]
          /\ refNow' = IF reads = <<>> THEN Undefined ELSE Def(reads[1])
  /\ pc' = "filterNew"
  /\ UNCHANGED <<run, files, mainLocals, fetchLocals, filteredNewData, primeLocals, history,
                 exitCode, err, apart>>

\* detectChanges: const filteredNewData = filterPastShowtimes(newData);
DetectFilterNew ==
  /\ pc = "filterNew"
  /\ \E order \in KeyOrders(DOMAIN newData) :
       \E reads \in ClockReads(CountTimes(newData, order), now) :
          /\ filteredNewData' = filterPastShowtimes(newData, order, reads)
          /\ now' = IF reads = <<>> THEN now ELSE reads[Len(reads)]
          /\ refNow' = IF refNow = Undefined /\ reads # <<>> THEN Def(reads[1]) ELSE refNow
  /\ pc' = "compare"
  /\ UNCHANGED <<run, files, mainLocals, fetchLocals, filteredOldData, primeLocals, history,
                 exitCode, err, apart>>

\* detectChanges: the two comparison loops and the result.
DetectCompare ==
  /\ pc = "compare"
  /\ changes' = detectChangesCompare(filteredOldData, filteredNewData)
  /\ pc' = AfterDetect(changes')
  /\ UNCHANGED <<run, now, files, oldData, newData, msg, fetchLocals, diffLocals, primeLocals,
                 history, exitCode, err, apart>>

\* main: const msg = formatMessage(changes, new Date().toISOString()); the
\* reading of the clock ends up in value3 only.
FormatMessage ==
  \E addedOrder \in entryOrders(changes, "added"),
     removedOrder \in entryOrders(changes, "removed"),
     timestamp \in now..MaxT :
    msg' = Def(formatMessage(changes, addedOrder, removedOrder, timestamp))

\* main with saveCache moved in front of the webhook POST.
SendNotificationAfterSave ==
  /\ pc = "notify"
  /\ FormatMessage
  /\ cacheFile' = JsonFile(newData)
  /\ saves' = saves + 1
  /\ \E webhookUrl \in BOOLEAN, post \in {"ok", "error"} :
       IF ~webhookUrl
       THEN /\ Exit1("nourl")
            /\ UNCHANGED <<posts, delivered, netFailure>>
       ELSE /\ posts' = posts + 1
            /\ IF post = "error"
               THEN /\ Exit1("webhook")
                    /\ Failed("webhook")
                    /\ UNCHANGED delivered
               ELSE /\ delivered' = delivered + 1
                    /\ pc' = "exited"
                    /\ exitCode' = 0
                    /\ UNCHANGED <<netFailure, err>>
  /\ UNCHANGED <<run, now, cacheAtStart, oldData, newData, changes, fetchLocals,
                 diffLocals, primeLocals, gets, loads, queries, malformed, apart>>

\* main whose sendNotification logs a failed POST and returns.
SendNotificationSwallowsError ==
  /\ pc = "notify"
  /\ FormatMessage
  /\ \E webhookUrl \in BOOLEAN, post \in {"ok", "error"} :
       IF ~webhookUrl
       THEN /\ Exit1("nourl")
            /\ UNCHANGED <<posts, delivered, netFailure>>
       ELSE /\ posts' = posts + 1
            /\ pc' = "save"
            /\ IF post = "error"
               THEN Failed("webhook") /\ UNCHANGED delivered
               ELSE delivered' = delivered + 1 /\ UNCHANGED netFailure
            /\ UNCHANGED <<exitCode, err>>
  /\ UNCHANGED <<run, now, files, oldData, newData, changes, fetchLocals, diffLocals,
                 primeLocals, gets, loads, queries, saves, malformed, apart>>

\* main: await sendNotification(msg);
SendNotification ==
  /\ pc = "notify"
  /\ FormatMessage
  /\ \E webhookUrl \in BOOLEAN, post \in {"ok", "error"} :
       IF ~webhookUrl
       THEN /\ Exit1("nourl")
            /\ UNCHANGED <<posts, delivered, netFailure>>
       ELSE /\ posts' = posts + 1
            /\ IF post = "error"
               THEN /\ Exit1("webhook")
                    /\ Failed("webhook")
                    /\ UNCHANGED delivered
               ELSE /\ delivered' = delivered + 1
                    /\ pc' = "save"
                    /\ UNCHANGED <<netFailure, exitCode, err>>
  /\ UNCHANGED <<run, now, files, oldData, newData, changes, fetchLocals, diffLocals,
                 primeLocals, gets, loads, queries, saves, malformed, apart>>

\* main that goes back to the comparison after it saved.
SaveCacheAndGoOn ==
  /\ pc = "save"
  /\ cacheFile' = JsonFile(newData)
  /\ saves' = saves + 1
  /\ pc' = "detect"
  /\ oldData' = loadCache(cacheFile')
  /\ loads' = loads + 1
  /\ UNCHANGED <<run, now, cacheAtStart, newData, changes, msg, fetchLocals, diffLocals,
                 primeLocals, gets, queries, posts, delivered, netFailure, malformed,
                 exitCode, err, apart>>

\* main that saves the Schedule as the diff filtered it.
SaveCacheFiltered ==
  /\ pc = "save"
  /\ cacheFile' = JsonFile(IF oldData.isNull THEN newData ELSE filteredNewData)
  /\ saves' = saves + 1
  /\ pc' = "exited"
  /\ exitCode' = 0
  /\ UNCHANGED <<run, now, cacheAtStart, mainLocals, fetchLocals, diffLocals, primeLocals,
                 gets, loads, queries, posts, delivered, netFailure, malformed, err, apart>>

\* main: saveCache(newData); and the process ends.
SaveCache ==
  /\ pc = "save"
  /\ cacheFile' = JsonFile(newData)
  /\ saves' = saves + 1
  /\ pc' = "exited"
  /\ exitCode' = 0
  /\ UNCHANGED <<run, now, cacheAtStart, mainLocals, fetchLocals, diffLocals, primeLocals,
                 gets, loads, queries, posts, delivered, netFailure, malformed, err, apart>>

\* A new process: main() with fresh locals over the cache.json and the clock
\* the process before it left.
Restart ==
  /\ pc = "exited"
  /\ run < MaxRuns
  /\ run' = run + 1
  /\ cacheAtStart' = cacheFile
  /\ pc' = "main"
  /\ oldData' = Null
  /\ newData' = EmptyMap
  /\ changes' = NoChanges
  /\ msg' = Undefined
  /\ DropFetchLocals
  /\ refNow' = Undefined
  /\ filteredOldData' = EmptyMap
  /\ filteredNewData' = EmptyMap
  /\ queries' = 0
  /\ posts' = 0
  /\ delivered' = 0
  /\ saves' = 0
  /\ netFailure' = ""
  /\ malformed' = FALSE
  /\ exitCode' = 0
  /\ err' = ""
  /\ gets' = 0
  /\ loads' = 0
  /\ homeResp' = Undefined
  /\ nowResp' = Undefined
  /\ UNCHANGED <<now, cacheFile, cursor, ymds, variant, showings, cookiesBefore, setCookies>>

\* The scheduler starts the monitor again.
StartRun ==
  /\ Restart
  /\ UNCHANGED prevRun

Next ==
  \/ LoadCache
  \/ PrimeHome
  \/ PrimeNow
  \/ FetchDay
  \/ Normalize
  \/ DetectInitial
  \/ DetectFilterOld
  \/ DetectFilterNew
  \/ DetectCompare
  \/ SendNotification
  \/ SaveCache
  \/ StartRun

Spec == Init /\ [][Next]_vars

\* ------------------------------------------- the diff engine on its own
\* main() at its call of detectChanges, for every previous snapshot and
\* every fetched Schedule.
InitDiff ==
  /\ pc = "detect"
  /\ run = 1
  /\ now = 0
  /\ oldData \in {Null} \cup {Obj(s) : s \in Schedules}
  /\ cacheFile = IF oldData.isNull THEN AbsentFile ELSE JsonFile(oldData.val)
  /\ cacheAtStart = cacheFile
  /\ newData \in Schedules
  /\ changes = NoChanges
  /\ msg = Undefined
  /\ cookies = <<>>
  /\ i = 0
  /\ map = EmptyMap
  /\ returned = 0
  /\ refNow = Undefined
  /\ filteredOldData = EmptyMap
  /\ filteredNewData = EmptyMap
  /\ queries = DAYS_AHEAD + 1
  /\ posts = 0
  /\ delivered = 0
  /\ saves = 0
  /\ netFailure = ""
  /\ malformed = FALSE
  /\ exitCode = 0
  /\ err = ""
  /\ gets = 2
  /\ loads = 1
  /\ homeResp = Undefined
  /\ nowResp = Undefined
  /\ RollingOnly

NextDiff ==
  \/ DetectInitial
  \/ DetectFilterOld
  \/ DetectFilterNew
  \/ DetectCompare

SpecDiff == InitDiff /\ [][NextDiff]_vars

\* ------------------------------------- main() from the diff to its end
\* main() from its call of detectChanges on, for every previous snapshot
\* and every fetched Schedule.
NextAfterFetch ==
  \/ DetectInitial
  \/ DetectFilterOld
  \/ DetectFilterNew
  \/ DetectCompare
  \/ SendNotification
  \/ SaveCache

SpecAfterFetch == InitDiff /\ [][NextAfterFetch]_vars

\* ------------------------------------------ the walk over the dates
FreshMain == oldData = Null /\ newData = EmptyMap /\ changes = NoChanges /\ msg = Undefined
FreshFetch ==
  /\ cookies = <<>>
  /\ i = 0
  /\ map = EmptyMap
  /\ returned = 0
  /\ homeResp = Undefined
  /\ nowResp = Undefined
FreshDiff == refNow = Undefined /\ filteredOldData = EmptyMap /\ filteredNewData = EmptyMap
NothingSent == queries = 0 /\ posts = 0 /\ delivered = 0 /\ saves = 0
NothingFailed == netFailure = "" /\ malformed = FALSE /\ exitCode = 0 /\ err = ""
FirstRun == run = 1 /\ now = 0

\* getAllShowtimesRollingMonth at `let cursor = new Date()`, for every start
\* instant.
InitDates ==
  /\ pc = "fetch"
  /\ FirstRun
  /\ cacheFile = AbsentFile
  /\ cacheAtStart = cacheFile
  /\ FreshMain
  /\ FreshFetch
  /\ FreshDiff
  /\ NothingSent
  /\ NothingFailed
  /\ gets = 2
  /\ loads = 1
  /\ cursor \in StartInstants
  /\ ymds = <<>>
  /\ variant = "rolling"
  /\ showings = <<>>
  /\ cookiesBefore = <<>>
  /\ setCookies = <<>>
  /\ prevRun = Undefined

\* One turn of the loop, for the date it queries: toYMD(cursor), the POST,
\* cursor = addDays(cursor, 1). The answers are taken to be empty days.
FetchDayDates ==
  /\ pc = "fetch"
  /\ i <= DAYS_AHEAD
  /\ ymds' = Append(ymds, toYMD(cursor))
  /\ queries' = queries + 1
  /\ cursor' = addDays(cursor, 1)
  /\ i' = i + 1
  /\ UNCHANGED <<pc, run, now, files, mainLocals, cookies, map, returned, diffLocals,
                 primeLocals, gets, loads, posts, delivered, saves, netFailure, malformed,
                 exitCode, err, variant, showings, cookiesBefore, setCookies, prevRun>>

NextDates == FetchDayDates

SpecDates == InitDates /\ [][NextDates]_vars

\* ------------------------------------------- the main() of src/monitor.js
\* src/monitor.js holds two programs: the single-query GraphQL monitor
\* (variant "graphql") and the page-scraping monitor (variant "browser").
\* Their Schedules list display strings; the entries of Schedules stand
\* for them, as only their equality matters to these main() functions.
Variants == {"graphql", "browser"}

\* getAllShowtimesViaGraphQL on the response of its POST: what it throws.
graphqlFailure(resp) ==
  IF resp.transport = "error" THEN "transport"
  ELSE IF resp.status = 403 THEN "403"
  ELSE IF resp.status < 200 \/ resp.status >= 300 THEN "http"
  ELSE IF resp.body = "errors" THEN "body"
  ELSE ""

InitMonitor ==
  /\ pc = "getAll"
  /\ variant \in Variants
  /\ FirstRun
  /\ cacheFile \in {AbsentFile, CorruptFile} \cup {JsonFile(data) : data \in Schedules}
  /\ cacheAtStart = cacheFile
  /\ FreshMain
  /\ FreshFetch
  /\ FreshDiff
  /\ NothingSent
  /\ NothingFailed
  /\ gets = 0
  /\ loads = 0
  /\ cursor = 0
  /\ ymds = <<>>
  /\ showings = <<>>
  /\ cookiesBefore = <<>>
  /\ setCookies = <<>>
  /\ prevRun = Undefined

\* main: the try around getAllShowtimesViaGraphQL, whose catch goes on
\* with newData = {}; or fetchPageWithBrowser and parseShowtimesWithDates,
\* whose throw is logged by main().catch(console.error).
MonitorFetch ==
  /\ pc = "getAll"
  /\ IF variant = "graphql"
     THEN \E cookieGet \in {"ok", "error"}, resp \in Responses(0), parsed \in Schedules :
            /\ gets' = gets + 1
            /\ queries' = IF cookieGet = "ok" THEN queries + 1 ELSE queries
            /\ Failed(IF cookieGet = "error" THEN "prime" ELSE graphqlFailure(resp))
            /\ newData' = IF netFailure' # "" THEN EmptyMap
                          ELSE IF resp.body = "data" THEN parsed
                          ELSE EmptyMap
            /\ pc' = "loadCache"
            /\ UNCHANGED <<exitCode, err>>
     ELSE \E page \in {"ok", "error"}, parsed \in Schedules :
            /\ gets' = gets + 1
            /\ Failed(IF page = "error" THEN "transport" ELSE "")
            /\ IF page = "error"
               THEN /\ pc' = "exited"
                    /\ err' = "browser"
                    /\ UNCHANGED <<newData, exitCode>>
               ELSE /\ newData' = parsed
                    /\ pc' = "loadCache"
                    /\ UNCHANGED <<exitCode, err>>
            /\ UNCHANGED queries
  /\ UNCHANGED <<run, now, files, oldData, changes, msg, fetchLocals, diffLocals, primeLocals,
                 loads, posts, delivered, saves, malformed, apart>>

\* main: const oldData = loadCache();
MonitorLoadCache ==
  /\ pc = "loadCache"
  /\ oldData' = loadCache(cacheFile)
  /\ loads' = loads + 1
  /\ pc' = "detectChanges"
  /\ UNCHANGED <<run, now, files, newData, changes, msg, fetchLocals, diffLocals, primeLocals,
                 gets, queries, posts, delivered, saves, netFailure, malformed,
                 exitCode, err, apart>>

\* main: const changes = detectChanges(oldData, newData); no instant is
\* filtered out in these programs.
MonitorDetect ==
  /\ pc = "detectChanges"
  /\ changes' = IF oldData.isNull THEN detectChangesInitial(newData)
                ELSE detectChangesCompare(oldData.val, newData)
  /\ pc' = IF changes'.changed THEN "sendNotification" ELSE "saveCache"
  /\ UNCHANGED <<run, now, files, oldData, newData, msg, fetchLocals, diffLocals, primeLocals,
                 history, exitCode, err, apart>>

\* main: await sendNotification(msg). The GraphQL monitor's throws without
\* a URL and lets the POST's error pass; the browser monitor's logs either
\* and returns.
MonitorNotify ==
  /\ pc = "sendNotification"
  /\ \E webhookUrl \in BOOLEAN, post \in {"ok", "error"} :
       IF ~webhookUrl
       THEN /\ IF variant = "graphql"
               THEN Exit1("nourl")
               ELSE pc' = "saveCache" /\ err' = "nourl" /\ UNCHANGED exitCode
            /\ UNCHANGED <<posts, delivered, netFailure>>
       ELSE /\ posts' = posts + 1
            /\ IF post = "error"
               THEN /\ Failed("webhook")
                    /\ IF variant = "graphql"
                       THEN Exit1("webhook")
                       ELSE pc' = "saveCache" /\ err' = "webhook" /\ UNCHANGED exitCode
                    /\ UNCHANGED delivered
               ELSE /\ delivered' = delivered + 1
                    /\ pc' = "saveCache"
                    /\ UNCHANGED <<netFailure, exitCode, err>>
  /\ UNCHANGED <<run, now, files, mainLocals, fetchLocals, diffLocals, primeLocals, gets,
                 loads, queries, saves, malformed, apart>>

\* main: saveCache(newData); and the process ends.
MonitorSave ==
  /\ pc = "saveCache"
  /\ cacheFile' = JsonFile(newData)
  /\ saves' = saves + 1
  /\ pc' = "exited"
  /\ UNCHANGED <<run, now, cacheAtStart, mainLocals, fetchLocals, diffLocals, primeLocals,
                 gets, loads, queries, posts, delivered, netFailure, malformed, exitCode,
                 err, apart>>

NextMonitor ==
  \/ MonitorFetch
  \/ MonitorLoadCache
  \/ MonitorDetect
  \/ MonitorNotify
  \/ MonitorSave

SpecMonitor == InitMonitor /\ [][NextMonitor]_vars

\* ------------------------------------------- mergeSetCookies on its own
\* Set-Cookie values: "a=1", "b=1", "a=3;P", " a = 1 ", "=1", "a", "a=1=2".
SetCookieValues ==
  {<<"a", "=", "1">>,
   <<"b", "=", "1">>,
   <<"a", "=", "3", ";", "P">>,
   <<" ", "a", " ", "=", " ", "1", " ">>,
   <<"=", "1">>,
   <<"a">>,
   <<"a", "=", "1", "=", "2">>}

\* Cookie headers not written by mergeSetCookies: "", "a=1;a=2", "b=2 ; a=1".
CookieHeaders ==
  {<<>>,
   <<"a", "=", "1", ";", "a", "=", "2">>,
   <<"b", "=", "2", " ", ";", " ", "a", "=", "1">>}

\* primeCookies before its first merge, for every cookie header.
InitCookies ==
  /\ pc = "mergeSetCookies"
  /\ cookies \in CookieHeaders
  /\ cookiesBefore = <<>>
  /\ setCookies = <<>>
  /\ prevRun = Undefined
  /\ gets = 0
  /\ FirstRun
  /\ cacheFile = AbsentFile
  /\ cacheAtStart = cacheFile
  /\ FreshMain
  /\ i = 0
  /\ map = EmptyMap
  /\ returned = 0
  /\ homeResp = Undefined
  /\ nowResp = Undefined
  /\ FreshDiff
  /\ NothingSent
  /\ NothingFailed
  /\ loads = 1
  /\ cursor = 0
  /\ ymds = <<>>
  /\ variant = "rolling"
  /\ showings = <<>>

\* cookies = mergeSetCookies(cookies, resp.headers["set-cookie"]), for
\* every list of Set-Cookie values; primeCookies does it twice.
MergeSetCookies ==
  /\ pc = "mergeSetCookies"
  /\ gets < 2
  /\ gets' = gets + 1
  /\ \E list \in SeqsUpTo(SetCookieValues, MaxSetCookies) :
       /\ cookiesBefore' = cookies
       /\ setCookies' = list
       /\ cookies' = mergeSetCookies(cookies, list)
  /\ UNCHANGED <<pc, run, now, files, mainLocals, i, map, returned, diffLocals, primeLocals,
                 loads, queries, posts, delivered, saves, netFailure, malformed, exitCode,
                 err, cursor, ymds, variant, showings, prevRun>>

NextCookies == MergeSetCookies

SpecCookies == InitCookies /\ [][NextCookies]_vars

\* ----------------------------------------------- the normalizer on its own
\* A time string of whitespace only.
BlankString == Iso("blank", 0)

\* Raw records: two instants under one title, the first of them also in a
\* second encoding, a padded title, a second title, and the records with a
\* missing, empty or blank title or time.
NormRecords ==
  {RawRecord(Def(<<"A">>), Def(Iso("Z", 1))),
   RawRecord(Def(<<"A">>), Def(Iso("Z", 2))),
   RawRecord(Def(<<"A">>), Def(Iso("offset", 1))),
   RawRecord(Def(<<" ", "A", " ">>), Def(Iso("Z", 1))),
   RawRecord(Def(<<"B">>), Def(Iso("Z", 1))),
   RawRecord(Def(<<"A">>), Def(BlankString)),
   RawRecord(Def(<<" ">>), Def(Iso("Z", 1))),
   RawRecord(Undefined, Def(Iso("Z", 1))),
   RawRecord(Def(<<"A">>), Undefined),
   RawRecord(Def(<<"A">>), Def(EmptyString))}

\* getAllShowtimesRollingMonth when its loop has pushed the records of all
\* days, for every list of raw records.
InitNorm ==
  /\ pc = "fetch"
  /\ i = DAYS_AHEAD + 1
  /\ showings \in SeqsUpTo(NormRecords, MaxShowings)
  /\ map = pushShowings(EmptyMap, showings)
  /\ returned = Len(showings)
  /\ cookies = <<>>
  /\ homeResp = Undefined
  /\ nowResp = Undefined
  /\ FirstRun
  /\ cacheFile = AbsentFile
  /\ cacheAtStart = cacheFile
  /\ FreshMain
  /\ FreshDiff
  /\ queries = DAYS_AHEAD + 1
  /\ posts = 0
  /\ delivered = 0
  /\ saves = 0
  /\ NothingFailed
  /\ gets = 2
  /\ loads = 1
  /\ cursor = 0
  /\ ymds = <<>>
  /\ variant = "rolling"
  /\ cookiesBefore = <<>>
  /\ setCookies = <<>>
  /\ prevRun = Undefined

NextNorm == Normalize

SpecNorm == InitNorm /\ [][NextNorm]_vars

\* ------------------------------------- a run and the run that follows
\* How a run ended, for the run after it to be compared with.
Outcome ==
  [exitCode |-> exitCode, err |-> err, newData |-> newData, changes |-> changes,
   posts |-> posts, cacheAtStart |-> cacheAtStart, cacheFile |-> cacheFile]

\* The scheduler starts the monitor again; the outcome of the run that
\* ended is remembered.
StartNextRun ==
  /\ Restart
  /\ prevRun' = Def(Outcome)

\* getAllShowtimesRollingMonth as a whole, when priming succeeds and the
\* data endpoint answers the request of every date with the records of the
\* run before.
FetchSameRecords ==
  /\ pc = "primeHome"
  /\ prevRun # Undefined
  /\ newData' = prevRun[1].newData
  /\ gets' = 2
  /\ queries' = DAYS_AHEAD + 1
  /\ pc' = "detect"
  /\ UNCHANGED <<run, now, files, oldData, changes, msg, fetchLocals, diffLocals, primeLocals,
                 loads, posts, delivered, saves, netFailure, malformed, exitCode, err,
                 apart>>

\* main() from its call of detectChanges on, followed by whole runs that
\* fetch the same records.
NextTwoRuns ==
  \/ DetectInitial
  \/ DetectFilterOld
  \/ DetectFilterNew
  \/ DetectCompare
  \/ SendNotification
  \/ SaveCache
  \/ StartNextRun
  \/ LoadCache
  \/ FetchSameRecords

SpecTwoRuns == InitDiff /\ [][NextTwoRuns]_vars

\* ------------------------- the diff engine over any pair of mappings
\* The strings a list can hold: the two instants in the encoding of the
\* endpoint, the first of them also with a UTC offset, and a string that
\* denotes no instant.
AnyStrings == IsoStrings \cup {Iso("offset", 1), BlankString}

\* The lists of at most two of them, in any order: nothing in detectChanges
\* relies on the order or on the length of a list.
AnyLists ==
  {<<>>} \cup {<<a>> : a \in AnyStrings}
         \cup {pair \in AnyStrings \X AnyStrings : pair[1] # pair[2]}

\* The mappings of one title, among them the one that maps it to the empty
\* list.
AnySchedules == UNION {[D -> AnyLists] : D \in SUBSET {<<"A">>}}

\* main() at its call of detectChanges, for every pair of such mappings.
InitDiffAny ==
  /\ pc = "detect"
  /\ run = 1
  /\ now = 0
  /\ oldData \in {Null} \cup {Obj(s) : s \in AnySchedules}
  /\ cacheFile = IF oldData.isNull THEN AbsentFile ELSE JsonFile(oldData.val)
  /\ cacheAtStart = cacheFile
  /\ newData \in AnySchedules
  /\ changes = NoChanges
  /\ msg = Undefined
  /\ FreshFetch
  /\ FreshDiff
  /\ queries = DAYS_AHEAD + 1
  /\ posts = 0
  /\ delivered = 0
  /\ saves = 0
  /\ NothingFailed
  /\ gets = 2
  /\ loads = 1
  /\ RollingOnly

SpecDiffAny == InitDiffAny /\ [][NextDiff]_vars

\* ================================================================ claims
\* The failures of the fetch stage: priming, or a day's request.
FetchFailures == {"prime", "transport", "403", "http", "body"}

\* C1: when session priming throws, or the request of any day fails (403,
\* another non-2xx status, a body carrying error/errors, a transport error),
\* the run ends with exit status 1, saveCache was not called (cache.json is
\* as the run found it) and no webhook POST was made.
C1_FetchFailureEndsRun ==
  netFailure \in FetchFailures =>
    /\ pc = "exited"
    /\ exitCode = 1
    /\ saves = 0
    /\ cacheFile = cacheAtStart
    /\ posts = 0

\* A run with a snapshot to lose is forbidden on its fifth day.
C1_Witness ==
  /\ pc = "exited"
  /\ netFailure = "403"
  /\ queries = 5
  /\ cacheAtStart.state = "json"
  /\ exitCode = 1

\* detectChanges has returned in this run.
Compared ==
  \/ pc \in {"notify", "save"}
  \/ pc = "exited" /\ err \in {"", "nourl", "webhook"}

Range(arr) == {arr[j] : j \in 1..Len(arr)}
\* The instants a Schedule lists under a title, none if it lacks the title.
Elems(data, m) == IF m \in DOMAIN data THEN Range(data[m]) ELSE {}
\* Every instant a map lists.
Instants(data) == UNION {Range(data[m]) : m \in DOMAIN data}
\* The instant lies strictly before the clock reading.
Before(t, reading) == getTime(t) # NaN /\ getTime(t) < reading
\* The entries of x that y lacks, in the order of x.
SeqMinus(x, y) == SelectSeq(x, LAMBDA t : t \notin Range(y))

\* C2 as stated: when the webhook POST fails, cache.json already holds the
\* newly fetched Schedule.
C2_CacheUpdatedBeforeAlertFails ==
  netFailure = "webhook" => cacheFile = JsonFile(newData)

\* C2 amended: when the fetch and the diff succeeded, a change was detected
\* and the webhook POST fails, saveCache has not been called: the run exits
\* with status 1 and cache.json is as the run found it.
C2_FailedAlertLeavesCache ==
  netFailure = "webhook" =>
    /\ pc = "exited"
    /\ exitCode = 1
    /\ queries = DAYS_AHEAD + 1
    /\ changes.changed
    /\ posts = 1
    /\ saves = 0
    /\ cacheFile = cacheAtStart

\* The alert of a regular diff fails while cache.json holds another Schedule
\* than the one just fetched.
C2_Witness ==
  /\ netFailure = "webhook"
  /\ pc = "exited"
  /\ ~changes.isInitial
  /\ cacheAtStart.state = "json"
  /\ cacheFile # JsonFile(newData)

\* The previous snapshot and the fetched Schedule differ only by instants
\* that lie before the clock reading.
OnlyPastDiffers(old, new, reading) ==
  \A m \in DOMAIN old \cup DOMAIN new :
    \A t \in (Elems(old, m) \ Elems(new, m)) \cup (Elems(new, m) \ Elems(old, m)) :
      Before(t, reading)

\* C3: in a run that follows a successful run, if the fetched Schedule
\* differs from the cached one only by instants already past when the
\* comparison starts, detectChanges returns changed = false and no
\* notification is sent, however the clock advances.
C3_AgeingOutIsSilent ==
  (/\ run > 1
   /\ cacheAtStart.state = "json"
   /\ Compared
   /\ ~changes.isInitial
   /\ OnlyPastDiffers(oldData.val, newData, IF refNow = Undefined THEN now ELSE refNow[1]))
  => (~changes.changed /\ posts = 0)

\* C4: no instant strictly earlier than the reference now of the comparison
\* (the first reading of the clock that detectChanges takes) is in added or
\* in removed.
C4_NoPastInstantInDiff ==
  (Compared /\ ~changes.isInitial) =>
    \A t \in Instants(changes.added) \cup Instants(changes.removed) :
      refNow # Undefined /\ ~Before(t, refNow[1])

\* A past instant is on one side only, and the diff still reports a change.
C4_Witness ==
  /\ Compared
  /\ ~changes.isInitial
  /\ changes.changed
  /\ refNow # Undefined
  /\ \E m \in DOMAIN oldData.val :
       \E t \in Elems(oldData.val, m) \ Elems(newData, m) : Before(t, refNow[1])

\* C5: diffing a Schedule against itself yields changed = false with empty
\* added and removed.
C5_SelfDiffUnchanged ==
  (Compared /\ ~oldData.isNull /\ oldData.val = newData) =>
    /\ ~changes.changed
    /\ DOMAIN changes.added = {}
    /\ DOMAIN changes.removed = {}

\* C6: with P' and C' the filtered previous and current Schedules, a title
\* only in C' has all of C'[title] in added, a title only in P' has all of
\* P'[title] in removed, a title in both has C'[title] minus P'[title] in
\* added and P'[title] minus C'[title] in removed, each recorded only when
\* non-empty, and no other title is recorded.
C6_DiffExact ==
  (Compared /\ ~changes.isInitial) =>
    LET P == filteredOldData
        C == filteredNewData
        a == changes.added
        r == changes.removed
    IN /\ DOMAIN a \cup DOMAIN r \subseteq DOMAIN P \cup DOMAIN C
       /\ \A title \in DOMAIN C \ DOMAIN P :
            title \in DOMAIN a /\ a[title] = C[title] /\ title \notin DOMAIN r
       /\ \A title \in DOMAIN P \ DOMAIN C :
            title \in DOMAIN r /\ r[title] = P[title] /\ title \notin DOMAIN a
       /\ \A title \in DOMAIN P \cap DOMAIN C :
            /\ (title \in DOMAIN a) = (SeqMinus(C[title], P[title]) # <<>>)
            /\ title \in DOMAIN a => a[title] = SeqMinus(C[title], P[title])
            /\ (title \in DOMAIN r) = (SeqMinus(P[title], C[title]) # <<>>)
            /\ title \in DOMAIN r => r[title] = SeqMinus(P[title], C[title])
            /\ P[title] = C[title] => title \notin DOMAIN a \cup DOMAIN r

\* One title is new, another lost one instant and gained another.
C6_Witness ==
  /\ Compared
  /\ ~changes.isInitial
  /\ \E m1, m2 \in DOMAIN filteredNewData :
       /\ m1 \notin DOMAIN filteredOldData
       /\ m2 \in DOMAIN filteredOldData
       /\ m1 \in DOMAIN changes.added
       /\ m2 \in DOMAIN changes.added
       /\ m2 \in DOMAIN changes.removed

\* C7: without a previous snapshot detectChanges returns isInitial = true
\* for every current Schedule, with the count of titles and the count of
\* instants as its only content besides the two flags.
C7_InitialSummary ==
  (Compared /\ oldData.isNull) =>
    /\ changes.isInitial
    /\ DOMAIN changes = {"changed", "isInitial", "message"}
    /\ changes.message =
         <<"Initial check",
           Cardinality(DOMAIN newData),
           Cardinality({mj \in (DOMAIN newData) \X (1..Cardinality(IsoStrings)) :
                          mj[2] <= Len(newData[mj[1]])})>>

\* The first fetch found nothing at all.
C7_Witness ==
  /\ Compared
  /\ oldData.isNull
  /\ DOMAIN newData = {}
  /\ changes.isInitial

AddedOf(c) == IF "added" \in DOMAIN c THEN DOMAIN c.added ELSE {}
RemovedOf(c) == IF "removed" \in DOMAIN c THEN DOMAIN c.removed ELSE {}

\* C8 as stated: for every result, initial or regular, changed is true
\* exactly when added or removed is non-empty.
C8_ChangedIffDiff ==
  Compared => (changes.changed <=> (AddedOf(changes) # {} \/ RemovedOf(changes) # {}))

\* C8 amended: for every regular result changed is true exactly when added
\* or removed is non-empty; an initial result has changed = true and
\* carries neither added nor removed.
C8_ChangedIffDiffRegular ==
  Compared =>
    IF changes.isInitial
    THEN changes.changed /\ "added" \notin DOMAIN changes /\ "removed" \notin DOMAIN changes
    ELSE changes.changed <=> (DOMAIN changes.added # {} \/ DOMAIN changes.removed # {})

\* A regular diff that only removes.
C8_Witness ==
  /\ Compared
  /\ ~changes.isInitial
  /\ changes.changed
  /\ DOMAIN changes.added = {}
  /\ DOMAIN changes.removed # {}

\* C9: a Schedule is returned only after the requests of all DAYS_AHEAD + 1
\* dates succeeded, one after the other; when a request fails the run is
\* over with that request as its last, and nothing fetched before it is
\* returned, compared or saved.
C9_AllOrNothing ==
  /\ pc = "fetch" => (queries = i /\ netFailure = "" /\ newData = EmptyMap)
  /\ pc \in {"detect", "filterNew", "compare", "notify", "save"} =>
       (queries = DAYS_AHEAD + 1 /\ netFailure = "")
  /\ (pc = "exited" /\ exitCode = 0) => queries = DAYS_AHEAD + 1
  /\ netFailure \in FetchFailures =>
       /\ pc = "exited"
       /\ queries <= DAYS_AHEAD + 1
       /\ newData = EmptyMap
       /\ changes = NoChanges
       /\ saves = 0

\* The third request of a run gets no answer.
C9_Witness ==
  /\ pc = "exited"
  /\ netFailure = "transport"
  /\ queries = 3
  /\ newData = EmptyMap

\* C10: a 2xx answer of the data endpoint without the expected payload
\* aborts the whole fetch: the run ends with status 1, cache.json is not
\* overwritten and no notification is sent.
C10_MalformedAborts ==
  malformed => (pc = "exited" /\ exitCode = 1 /\ saves = 0 /\ posts = 0)

\* C11: the date strings the loop queries are consecutive calendar dates of
\* Australia/Melbourne that begin with the date of the start instant: the
\* query of index k carries the date k days after it, whatever the start
\* instant and across both changes of the offset.
C11_ConsecutiveDates ==
  \A j \in 1..Len(ymds) : ymds[j] = ymds[1] + (j - 1)

\* The requests of a run come in one order: the two bootstrap GETs, the
\* POSTs of the days by ascending index, the webhook POST.
C12_Ordered ==
  /\ gets <= 2
  /\ posts <= 1
  /\ pc = "main" => gets = 0
  /\ pc = "primeHome" => gets = 0
  /\ pc = "primeNow" => gets = 1
  /\ queries > 0 => gets = 2
  /\ pc = "fetch" => (gets = 2 /\ queries = i /\ posts = 0)
  /\ posts > 0 => queries = DAYS_AHEAD + 1
  /\ (pc \in {"detect", "filterNew", "compare", "notify", "save"} \/ (pc = "exited" /\ exitCode = 0))
       => queries = DAYS_AHEAD + 1

\* A step of the run sends at most one request, and has its answer.
C12_OneRequestPerStep ==
  (gets' + queries' + posts') - (gets + queries + posts) <= 1

\* C12: within a run the requests are strictly ordered (bootstrap GETs,
\* then the day POSTs one after the other, then the webhook POST), no step
\* has more than one request under way, and a fetch that succeeds issued
\* exactly DAYS_AHEAD + 1 data queries.
C12_Sequential == []C12_Ordered /\ [][C12_OneRequestPerStep]_vars

\* A run that made every request it can make.
C12_Witness ==
  /\ pc = "exited"
  /\ exitCode = 0
  /\ gets = 2
  /\ queries = DAYS_AHEAD + 1
  /\ posts = 1
  /\ delivered = 1

\* C13: in every run cache.json is read once, before any request is sent,
\* and written at most once, as the last thing the run does and only after
\* the request of every date succeeded.
C13_ReadOnceWriteLast ==
  /\ loads <= 1
  /\ saves <= 1
  /\ loads = 0 => (pc = "main" /\ gets = 0 /\ queries = 0 /\ posts = 0)
  /\ pc # "main" => loads = 1
  /\ saves = 1 =>
       /\ pc = "exited"
       /\ exitCode = 0
       /\ queries = DAYS_AHEAD + 1
       /\ netFailure = ""
       /\ cacheFile = JsonFile(newData)

\* A later run that found nothing new and saved.
C13_Witness ==
  /\ run > 1
  /\ loads = 1
  /\ saves = 1
  /\ ~changes.changed
  /\ cacheAtStart.state = "json"
  /\ posts = 0

\* C14: in the single-query GraphQL monitor of src/monitor.js a run whose
\* fetch failed (403, another non-2xx status, GraphQL errors, a transport
\* error) never writes cache.json and never sends a notification.
C14_FailedQueryLeavesCache ==
  (variant = "graphql" /\ netFailure \in FetchFailures) =>
    /\ saves = 0
    /\ posts = 0
    /\ cacheFile = cacheAtStart

\* C20: when a notification is due and the webhook URL is not configured,
\* the run ends in an error with a non-zero exit status rather than going
\* on without the notification; here for the two sendNotification
\* functions of src/monitor.js.
C20_MissingUrlIsFatal ==
  err = "nourl" => (pc = "exited" /\ exitCode # 0 /\ saves = 0)

\* The cookie header carries, for each Set-Cookie value of the list, the
\* key=value pair of its first segment.
CarriesCookies(header, list) ==
  \A j \in 1..Len(list) :
    \E k \in 1..Len(split(header, ";")) :
      splitKeyValue(split(header, ";")[k]) = splitKeyValue(split(list[j], ";")[1])

\* C15: session priming does not fail on an HTTP status. Whatever statuses
\* the home page and the listing page answer with, primeCookies goes on,
\* the Session holds the cookies of both answers and the loop is entered;
\* priming fails only when a bootstrap GET gets no answer, and then the
\* run ends without a single data query.
C15_PrimingIgnoresStatus ==
  /\ (homeResp # Undefined /\ homeResp[1].transport = "ok" /\ nowResp = Undefined) =>
       (pc = "primeNow" /\ CarriesCookies(cookies, homeResp[1].setCookie))
  /\ (nowResp # Undefined /\ nowResp[1].transport = "ok") =>
       /\ pc = "fetch"
       /\ i = 0
       /\ queries = 0
       /\ homeResp # Undefined
       /\ homeResp[1].transport = "ok"
       /\ CarriesCookies(cookies, homeResp[1].setCookie)
       /\ CarriesCookies(cookies, nowResp[1].setCookie)
  /\ netFailure = "prime" =>
       /\ pc = "exited"
       /\ exitCode = 1
       /\ queries = 0
       /\ \/ homeResp # Undefined /\ homeResp[1].transport = "error"
          \/ nowResp # Undefined /\ nowResp[1].transport = "error"

\* Both pages answered with an error status, one of them with a cookie,
\* and the loop is about to start.
C15_Witness ==
  /\ pc = "fetch"
  /\ homeResp # Undefined
  /\ nowResp # Undefined
  /\ homeResp[1].status = 500
  /\ nowResp[1].status = 403
  /\ homeResp[1].setCookie # <<>>
  /\ nowResp[1].setCookie = <<>>
  /\ cookies = <<"s", "i", "d", "=", "1">>

\* The <<key, value>> pairs a cookie header lists, those without a key
\* left out.
HeaderPairs(header) ==
  SelectSeq([j \in 1..Len(split(header, ";")) |-> splitKeyValue(split(header, ";")[j])],
            LAMBDA p : p[1] # <<>>)
\* The <<key, value>> pairs the first segments of a Set-Cookie list name.
ListPairs(list) ==
  SelectSeq([j \in 1..Len(list) |-> splitKeyValue(split(list[j], ";")[1])],
            LAMBDA p : p[1] # <<>>)
PairKeys(pairs) == {pairs[j][1] : j \in 1..Len(pairs)}
\* The value of the last pair with the key.
LastValue(pairs, key) ==
  pairs[CHOOSE j \in 1..Len(pairs) :
          pairs[j][1] = key /\ \A k \in (j + 1)..Len(pairs) : pairs[k][1] # key][2]

\* C16: mergeSetCookies merges by key, the last writer winning. Its result
\* lists every key once; a key the Set-Cookie list sets has the value of
\* its last occurrence there, any other key keeps the value the header
\* had, and merging the same list once more changes nothing.
C16_MergeByKey ==
  gets > 0 =>
    LET before == HeaderPairs(cookiesBefore)
        new == ListPairs(setCookies)
        after == HeaderPairs(cookies)
    IN /\ \A j, k \in 1..Len(after) : after[j][1] = after[k][1] => j = k
       /\ PairKeys(after) = PairKeys(before) \cup PairKeys(new)
       /\ \A key \in PairKeys(new) : LastValue(after, key) = LastValue(new, key)
       /\ \A key \in PairKeys(before) \ PairKeys(new) :
            LastValue(after, key) = LastValue(before, key)
       /\ mergeSetCookies(cookies, setCookies) = cookies

\* A header with two keys meets a list that sets one of them twice.
C16_Witness ==
  /\ gets = 2
  /\ Len(HeaderPairs(cookiesBefore)) = 2
  /\ Len(ListPairs(setCookies)) = 2
  /\ Len(HeaderPairs(cookies)) = 2
  /\ HeaderPairs(cookies) # HeaderPairs(cookiesBefore)

\* Every time string among the raw records that is not empty parses.
AllTimesParse ==
  \A j \in 1..Len(showings) :
    (showings[j].time # Undefined /\ showings[j].time[1] # EmptyString)
      => getTime(showings[j].time[1]) # NaN

\* C17: in the Schedule getAllShowtimesRollingMonth returns no instant
\* occurs twice in a title's list and each list ascends in time, also when
\* the same instant came in two encodings. Stated for records whose times
\* parse: each entry is strictly earlier than those after it.
C17_UniqueAscending ==
  (pc = "detect" /\ AllTimesParse) =>
    \A m \in DOMAIN newData :
      \A j, k \in 1..Len(newData[m]) :
        j < k => getTime(newData[m][j]) < getTime(newData[m][k])

\* The <<title, instant>> pairs of a Schedule as raw records, the titles
\* taken in the given order.
RECURSIVE RecordsOf(_, _)
RecordsOf(data, order) ==
  IF order = <<>> THEN <<>>
  ELSE [j \in 1..Len(data[Head(order)]) |->
          RawRecord(Def(Head(order)), Def(data[Head(order)][j]))]
       \o RecordsOf(data, Tail(order))

\* C18: normalization is idempotent: the pairs of the produced Schedule,
\* fed through skip, group, deduplicate and sort again, give the same
\* Schedule.
C18_Idempotent ==
  pc = "detect" =>
    \A order \in KeyOrders(DOMAIN newData) :
      normalize(pushShowings(EmptyMap, RecordsOf(newData, order))) = newData

\* Three records of one title, out of order and with a repetition.
C18_Witness ==
  /\ pc = "detect"
  /\ Len(showings) = 3
  /\ showings[1] = RawRecord(Def(<<"A">>), Def(Iso("Z", 2)))
  /\ showings[2] = RawRecord(Def(<<" ", "A", " ">>), Def(Iso("Z", 1)))
  /\ showings[3] = showings[1]
  /\ newData[<<"A">>] = <<Iso("Z", 1), Iso("Z", 2)>>

\* The record has a title and a time that are not empty once trimmed.
Complete(s) ==
  /\ s.name # Undefined
  /\ trim(s.name[1]) # <<>>
  /\ s.time # Undefined
  /\ s.time[1] \notin {EmptyString, BlankString}

\* C19: the normalizer skips a record whose title or time is missing or
\* empty after trimming, a time of whitespace only included, and groups the
\* others under their trimmed title.
C19_SkipAndGroup ==
  pc = "detect" =>
    LET kept == {j \in 1..Len(showings) : Complete(showings[j])}
    IN /\ DOMAIN newData = {trim(showings[j].name[1]) : j \in kept}
       /\ \A m \in DOMAIN newData :
            Range(newData[m]) =
              {showings[j].time[1] : j \in {k \in kept : trim(showings[k].name[1]) = m}}

\* The text lists every title of the mapping once, each with the formatted
\* instants of its list, under one heading line.
Listed(text, mapping) ==
  /\ Len(text) = Cardinality(DOMAIN mapping) + 1
  /\ \A m \in DOMAIN mapping :
       \E j \in 2..Len(text) :
         /\ text[j].text = m
         /\ text[j].sessions =
              [k \in 1..Len(mapping[m]) |-> [session |-> getTime(mapping[m][k])]]

\* C21: the message formatMessage returns has exactly the fields value1,
\* value2 and value3; for an initial result value1 is the summary message and
\* value2 the empty text; for a regular result value1 lists every title of
\* added with its formatted instants and value2 every title of removed, an
\* empty mapping gives the placeholder text, and so neither is ever empty.
C21_MessageShape ==
  msg # Undefined =>
    LET m == msg[1]
    IN /\ DOMAIN m = {"value1", "value2", "value3"}
       /\ IF changes.isInitial
          THEN m.value1 = changes.message /\ m.value2 = EmptyText
          ELSE /\ m.value1 # EmptyText
               /\ m.value2 # EmptyText
               /\ IF DOMAIN changes.added = {}
                  THEN m.value1 = NoSessionsAdded
                  ELSE Listed(m.value1, changes.added)
               /\ IF DOMAIN changes.removed = {}
                  THEN m.value2 = NoSessionsRemoved
                  ELSE Listed(m.value2, changes.removed)

\* A regular result with nothing added and two titles removed was formatted.
C21_Witness ==
  /\ msg # Undefined
  /\ ~changes.isInitial
  /\ DOMAIN changes.added = {}
  /\ DOMAIN changes.removed = Titles
  /\ msg[1].value1 = NoSessionsAdded
  /\ Len(msg[1].value2) = 3

\* C22: a run attempts the webhook POST at most once, and only for a result
\* with changed = true; when the attempt fails the run has ended with exit
\* status 1 on that error, without another attempt and without saveCache.
C22_NoRetry ==
  /\ posts <= 1
  /\ delivered <= posts
  /\ posts = 1 => changes.changed
  /\ (posts = 1 /\ delivered = 0) =>
       /\ pc = "exited"
       /\ exitCode = 1
       /\ err = "webhook"
       /\ netFailure = "webhook"
       /\ saves = 0

\* The only POST of a run failed and the run is over.
C22_Witness ==
  /\ posts = 1
  /\ delivered = 0
  /\ pc = "exited"
  /\ exitCode = 1
  /\ err = "webhook"

\* C23: in every regular result every title that is a key of added or of
\* removed maps to a non-empty list, whatever the two mappings are, also
\* when a title maps to the empty list or to a list of past instants only.
C23_NoEmptyList ==
  (Compared /\ ~changes.isInitial) =>
    /\ \A m \in DOMAIN changes.added : Len(changes.added[m]) > 0
    /\ \A m \in DOMAIN changes.removed : Len(changes.removed[m]) > 0

\* The previous snapshot maps the title to the empty list, the fetched
\* mapping to past instants only, and the two were compared.
C23_Witness ==
  /\ Compared
  /\ ~oldData.isNull
  /\ oldData.val = [m \in {<<"A">>} |-> <<>>]
  /\ newData = [m \in {<<"A">>} |-> <<Iso("Z", 1)>>]
  /\ refNow = Def(2)
  /\ ~changes.changed

\* C24: when the previous snapshot and the fetched Schedule list, under the
\* same title, two different strings that denote the same instant, and that
\* instant is not past at any clock reading of the comparison, neither
\* string is in added or in removed for that title.
C24_ComparesInstants ==
  (Compared /\ ~changes.isInitial) =>
    \A m \in DOMAIN oldData.val \cap DOMAIN newData :
      \A a \in Range(oldData.val[m]), b \in Range(newData[m]) :
        (a # b /\ getTime(a) # NaN /\ getTime(a) = getTime(b) /\ ~Before(a, now)) =>
          /\ a \notin Elems(changes.removed, m)
          /\ b \notin Elems(changes.added, m)

\* C25: once a run has completed, cache.json holds exactly the Schedule the
\* run fetched, with the instants that were past at the comparison and
\* without anything of the previous snapshot; only the two filtered copies
\* of the diff lack the past instants.
C25_SavedUnfiltered ==
  /\ saves = 1 => (pc = "exited" /\ exitCode = 0 /\ cacheFile = JsonFile(newData))
  /\ (pc = "exited" /\ exitCode = 0) => (saves = 1 /\ cacheFile = JsonFile(newData))
  /\ (Compared /\ ~changes.isInitial) =>
       \A m \in DOMAIN filteredNewData : Range(filteredNewData[m]) \subseteq Range(newData[m])

\* A run saved a Schedule with an instant that was past when the diff began
\* and that the diff had filtered out, over a different previous snapshot.
C25_Witness ==
  /\ saves = 1
  /\ ~oldData.isNull
  /\ oldData.val # newData
  /\ refNow # Undefined
  /\ \E m \in DOMAIN newData :
       \E t \in Range(newData[m]) :
         /\ Before(t, refNow[1])
         /\ t \notin Elems(filteredNewData, m)
         /\ t \in Range(cacheFile.data[m])

\* C26: for every regular result and every title, added and removed are
\* disjoint, added lies within the filtered current list and removed within
\* the filtered previous list, and taking removed away from the filtered
\* previous list and putting added in gives the filtered current list, as
\* sets.
C26_FaithfulPatch ==
  (Compared /\ ~changes.isInitial) =>
    \A m \in Titles :
      LET A == Elems(changes.added, m)
          R == Elems(changes.removed, m)
          P == Elems(filteredOldData, m)
          C == Elems(filteredNewData, m)
      IN /\ A \cap R = {}
         /\ A \subseteq C
         /\ R \subseteq P
         /\ (P \ R) \cup A = C

\* A title lost one instant and kept another, while a title gained one.
C26_Witness ==
  /\ Compared
  /\ ~changes.isInitial
  /\ \E m \in Titles :
       /\ Elems(changes.removed, m) # {}
       /\ Elems(filteredOldData, m) \ Elems(changes.removed, m) # {}
  /\ \E m \in Titles : Elems(changes.added, m) # {}

\* The run before this one detected a change and its sendNotification threw.
AlertFailedBefore ==
  /\ prevRun # Undefined
  /\ prevRun[1].changes.changed
  /\ prevRun[1].err \in {"webhook", "nourl"}

\* No instant the result lists under added or removed is past at the
\* reading.
StillFuture(c, reading) ==
  c.isInitial \/ \A t \in Instants(c.added) \cup Instants(c.removed) : ~Before(t, reading)

\* C27: when the run before detected a change and its sendNotification
\* threw, this run found cache.json as the run before had found it, and if
\* it fetched the same Schedule and no instant the run before reported is
\* past yet, its detectChanges returns the same result and main calls
\* sendNotification again.
C27_FailedAlertRetried ==
  AlertFailedBefore =>
    /\ cacheAtStart = prevRun[1].cacheAtStart
    /\ (Compared /\ newData = prevRun[1].newData /\ StillFuture(prevRun[1].changes, now)) =>
         /\ changes = prevRun[1].changes
         /\ pc = "notify" \/ msg # Undefined

\* C28: when the run before ended successfully and this run, which found
\* its snapshot, fetched the same Schedule and ended successfully too, this
\* run has sent no notification and cache.json has the content it had when
\* the run began.
C28_SteadyStateSilent ==
  (/\ prevRun # Undefined
   /\ prevRun[1].exitCode = 0
   /\ ~oldData.isNull
   /\ newData = prevRun[1].newData
   /\ pc = "exited"
   /\ exitCode = 0)
  => (~changes.changed /\ posts = 0 /\ msg = Undefined /\ cacheFile = cacheAtStart)

\* C29: in a run that found cache.json absent or unparsable, loadCache
\* returned null and the run went on; its detectChanges returns an initial
\* result, for which main formats and sends the initial message, also when
\* the fetched Schedule is empty; and when the run ends successfully the
\* notification was delivered and cache.json holds the fetched Schedule.
C29_UnreadableIsNoSnapshot ==
  cacheAtStart.state \in {"absent", "corrupt"} =>
    /\ oldData.isNull
    /\ loads = 1 => (pc # "main" /\ err # "load")
    /\ pc = "exited" => (loads = 1 /\ gets >= 1)
    /\ Compared =>
         /\ changes.isInitial
         /\ changes.changed
         /\ pc = "notify" \/ msg # Undefined
    /\ msg # Undefined => (msg[1].value1 = changes.message /\ msg[1].value2 = EmptyText)
    /\ (pc = "exited" /\ exitCode = 0) =>
         /\ posts = 1
         /\ delivered = 1
         /\ saves = 1
         /\ cacheFile = JsonFile(newData)

\* A run that found unparsable content and fetched an empty Schedule sent
\* the initial notification and replaced the file.
C29_Witness ==
  /\ cacheAtStart = CorruptFile
  /\ pc = "exited"
  /\ exitCode = 0
  /\ newData = EmptyMap
  /\ changes.isInitial
  /\ delivered = 1
  /\ cacheFile = JsonFile(EmptyMap)

\* The strings of a list that denote no instant.
Unparsable(data, m) == {t \in Elems(data, m) : getTime(t) = NaN}

\* C30: a string that denotes no instant is never filtered out, on either
\* side and at every clock reading, and is compared like any kept instant:
\* in added when only the fetched mapping lists it under the title, in
\* removed when only the previous snapshot does, in neither when both do.
C30_UnparsableIsKept ==
  (Compared /\ ~changes.isInitial) =>
    \A m \in DOMAIN oldData.val \cup DOMAIN newData :
      /\ Unparsable(oldData.val, m) \subseteq Elems(filteredOldData, m)
      /\ Unparsable(newData, m) \subseteq Elems(filteredNewData, m)
      /\ Unparsable(newData, m) \ Elems(oldData.val, m) \subseteq Elems(changes.added, m)
      /\ Unparsable(oldData.val, m) \ Elems(newData, m) \subseteq Elems(changes.removed, m)
      /\ \A t \in Unparsable(oldData.val, m) \cap Unparsable(newData, m) :
           t \notin Elems(changes.added, m) \cup Elems(changes.removed, m)

\* At the latest clock reading, when every instant is past, the unparsable
\* string that only the fetched mapping lists is all that is reported.
C30_Witness ==
  /\ Compared
  /\ ~oldData.isNull
  /\ refNow = Def(MaxT)
  /\ oldData.val = [m \in {<<"A">>} |-> <<Iso("Z", 1)>>]
  /\ newData = [m \in {<<"A">>} |-> <<Iso("Z", 1), BlankString>>]
  /\ changes.added = [m \in {<<"A">>} |-> <<BlankString>>]
  /\ DOMAIN changes.removed = {}

====
